---- MODULE Spec2Model ----
(***************************************************************************)
(* Model of components/rendering/src/katex.rs: render_katex runs           *)
(* render_katex_aux twice, first with inline_math_re ($...$), then with    *)
(* display_math_re ($$...$$) on the output of the first pass.              *)
(*                                                                         *)
(* A text is a sequence of one-character strings; offsets are the 0-based  *)
(* offsets the Rust code uses (content[a..b] is Slice(content, a, b)).     *)
(* The two patterns are read as the free-spacing look-around patterns      *)
(* their in-line comments describe: (?<!..) and (?!..) are negative        *)
(* look-behind and look-ahead, \s is whitespace, \h is horizontal          *)
(* whitespace, \d is a digit, * and ? are greedy with backtracking.        *)
(* katex::render_with_opts is an external function returning Result: each  *)
(* call either yields markup or an error; the code unwraps the result.     *)
(***************************************************************************)
EXTENDS Integers, Sequences, FiniteSets, TLC

VARIABLES
    layout,      \* which family of documents content was drawn from
    content,     \* the argument of render_katex
    pc,          \* "inline" | "display" : the pass running; "done"; "panicked"
    text,        \* the content argument of the running render_katex_aux
    pos,         \* offset where captures_iter resumes its search
    last,        \* render_katex_aux: last
    with_katex,  \* render_katex_aux: with_katex
    inline,      \* render_katex: inline (the first pass's return value)
    result,      \* the value render_katex returned (when pc = "done")
    calls,       \* the katex::render_with_opts invocations made so far, in order
    spans,       \* the captures the two passes iterated over, in order
    panic        \* <<e>> once an unwrap() hit Err(e), else << >>

vars == <<layout, content, pc, text, pos, last, with_katex, inline, result, calls, spans, panic>>

-----------------------------------------------------------------------------
(* Characters and character classes of the patterns *)

Dollar == "$"

Backslash == "\\"

Newline == "\n"

Whitespace == {" ", "\t", "\n", "\r", "\f"}

HSpace == {" ", "\t"}

Digits == {"0", "1", "2", "3", "4", "5", "6", "7", "8", "9"}

-----------------------------------------------------------------------------
(* Rust string slicing, with 0-based byte offsets *)

Slice(s, a, b) == SubSeq(s, a + 1, b)

CharAt(s, i) == s[i + 1]

Max(S) == CHOOSE x \in S : \A y \in S : y <= x

Min(S) == CHOOSE x \in S : \A y \in S : x <= y

\* the character at offset i exists and is in class
Is(s, i, class) == i >= 0 /\ i < Len(s) /\ CharAt(s, i) \in class

\* the character at offset i exists and is not in class: [^...]
IsNot(s, i, class) == i >= 0 /\ i < Len(s) /\ CharAt(s, i) \notin class

\* negative look-behind (?<![class]) at offset i
NotBehind(s, i, class) == i = 0 \/ CharAt(s, i - 1) \notin class

\* negative look-ahead (?![class]) at offset i
NotAhead(s, i, class) == i >= Len(s) \/ CharAt(s, i) \notin class

\* s[p .. p+n) exists and holds no character of class: a run of [^class]
RunNot(s, p, n, class) ==
    /\ p + n <= Len(s)
    /\ \A k \in p .. (p + n - 1) : CharAt(s, k) \notin class

\* s[p .. p+n) exists and holds only characters of class: a run of [class]
RunOf(s, p, n, class) ==
    /\ p + n <= Len(s)
    /\ \A k \in p .. (p + n - 1) : CharAt(s, k) \in class

\* the literal \$\$ at offset i
DoubleDollarAt(s, i) == Is(s, i, {Dollar}) /\ Is(s, i + 1, {Dollar})

-----------------------------------------------------------------------------
(* inline_math_re *)

\* (?<![\\\$])\$   at offset i
InlineOpen(s, i) == NotBehind(s, i, {Backslash, Dollar}) /\ Is(s, i, {Dollar})

\* [^\s\$]   at offset g
InlineFirst(s, g) == IsNot(s, g, Whitespace \cup {Dollar})

\* the look-behind before the closing dollar left out
InlineLookbehind_Absent(s, e) == TRUE

\* (?<![\\\s\$])   at offset e
InlineLookbehind(s, e) == NotBehind(s, e, {Backslash, Dollar} \cup Whitespace)

\* the closing look-ahead without \d: (?![\$])
InlineClose_DigitAllowed(s, e) == Is(s, e, {Dollar}) /\ NotAhead(s, e + 1, {Dollar})

\* the closing look-ahead without \$: (?![\d])
InlineClose_DollarAllowed(s, e) == Is(s, e, {Dollar}) /\ NotAhead(s, e + 1, Digits)

\* \$(?![\d\$])   at offset e
InlineClose(s, e) == Is(s, e, {Dollar}) /\ NotAhead(s, e + 1, Digits \cup {Dollar})

\* The lengths n of [^\$]* with which the rest of the pattern matches, the
\* opening dollar being at offset i.
InlineRuns(s, i) ==
    { n \in 0 .. Len(s) :
        /\ InlineFirst(s, i + 1)
        /\ RunNot(s, i + 2, n, {Dollar})
        /\ InlineLookbehind(s, i + 2 + n)
        /\ InlineClose(s, i + 2 + n) }

\* The match of inline_math_re that starts at offset i: a set of at most one
\* capture [start, end) = group 0, [tstart, tend) = group 1.  The greedy star
\* takes the longest run that lets the rest match.
InlineMathRe(s, i) ==
    IF InlineOpen(s, i) /\ InlineRuns(s, i) # {}
    THEN LET n == Max(InlineRuns(s, i))
         IN  {[start |-> i, end |-> i + 3 + n, tstart |-> i + 1, tend |-> i + 2 + n]}
    ELSE {}

-----------------------------------------------------------------------------
(* display_math_re *)

\* (?<!\\)\$\$   at offset i
DisplayOpen(s, i) == NotBehind(s, i, {Backslash}) /\ DoubleDollarAt(s, i)

\* \h*\n\h*   at offset p: the offsets where it can end
BlankLineEnds(s, p) ==
    { e \in p .. Len(s) :
        \E a \in 0 .. (e - p - 1) :
            /\ RunOf(s, p, a, HSpace)
            /\ Is(s, p + a, {Newline})
            /\ RunOf(s, p + a + 1, e - p - a - 1, HSpace) }

\* the look-ahead without its second alternative: (?=[^\s])
DisplayLookahead_NoBlankLine(s, p) == IsNot(s, p, Whitespace)

\* (?=[^\s]|\h*\n\h*[^\$\s])   at offset p
DisplayLookahead(s, p) ==
    \/ IsNot(s, p, Whitespace)
    \/ \E e \in BlankLineEnds(s, p) : IsNot(s, e, {Dollar} \cup Whitespace)

\* (?:\h*\n\h*)?\$\$   at offset t: the offsets where the match can end,
\* the optional group taken (greedy, tried first) or skipped
DisplayCloseTaken(s, t) == { e + 2 : e \in { x \in BlankLineEnds(s, t) : DoubleDollarAt(s, x) } }

DisplayCloseSkipped(s, t) == IF DoubleDollarAt(s, t) THEN {t + 2} ELSE {}

\* The lengths n of the star in ([^\$]*[^\s\$]) with which the rest matches,
\* the group starting at offset p.
DisplayRuns(s, p) ==
    { n \in 0 .. Len(s) :
        /\ RunNot(s, p, n, {Dollar})
        /\ IsNot(s, p + n, Whitespace \cup {Dollar})
        /\ DisplayCloseTaken(s, p + n + 1) \cup DisplayCloseSkipped(s, p + n + 1) # {} }

\* The match of display_math_re that starts at offset i.
DisplayMathRe(s, i) ==
    IF DisplayOpen(s, i) /\ DisplayLookahead(s, i + 2) /\ DisplayRuns(s, i + 2) # {}
    THEN LET n == Max(DisplayRuns(s, i + 2))
             t == i + 2 + n + 1
             e == IF DisplayCloseTaken(s, t) # {}
                  THEN Max(DisplayCloseTaken(s, t))
                  ELSE Max(DisplayCloseSkipped(s, t))
         IN  {[start |-> i, end |-> e, tstart |-> i + 2, tend |-> t]}
    ELSE {}

-----------------------------------------------------------------------------
(* rex.captures_iter(content): the leftmost match at or after offset from *)

MatchAt(s, display, i) == IF display THEN DisplayMathRe(s, i) ELSE InlineMathRe(s, i)

\* the search tries each start offset in turn, from left to right
RECURSIVE CapturesNext(_, _, _)
CapturesNext(s, display, from) ==
    IF from >= Len(s)
    THEN {}
    ELSE LET here == MatchAt(s, display, from)
         IN  IF here # {} THEN here ELSE CapturesNext(s, display, from + 1)

\* All the captures captures_iter yields on s, in order.
RECURSIVE CapturesFrom(_, _, _)
CapturesFrom(s, display, from) ==
    LET next == CapturesNext(s, display, from)
    IN  IF next = {}
        THEN << >>
        ELSE LET m == CHOOSE c \in next : TRUE
             IN  <<m>> \o CapturesFrom(s, display, m.end)

CapturesIter(s, display) == CapturesFrom(s, display, 0)

-----------------------------------------------------------------------------
(* katex::render_with_opts(s, k_opts): the markup of a successful call.    *)
(* The markup starts with a tag, carries the formula source (KaTeX's       *)
(* annotation element) and ends with a tag; it differs with display_mode.  *)

KatexHtml(s, display) ==
    <<"<">> \o (IF display THEN <<"d">> ELSE <<"i">>) \o <<">">> \o s \o <<"<", "/", ">">>

-----------------------------------------------------------------------------
(* render_katex_aux *)

\* &content[tex.start()..tex.end()]
Tex(s, m) == Slice(s, m.tstart, m.tend)

\* with_katex.push_str(&content[last..replace.start()])
PushGap(acc, s, from, m) == acc \o Slice(s, from, m.start)

\* last = replace.start() in place of replace.end()
NextLast_Start(m) == m.start

\* last = replace.end()
NextLast(m) == m.end

\* the final push_str left out
PushTail_Dropped(acc, s, from) == acc

\* with_katex.push_str(&content[last..])
PushTail(acc, s, from) == acc \o Slice(s, from, Len(s))

Display == pc = "display"

Running == pc \in {"inline", "display"}

-----------------------------------------------------------------------------
(* The documents render_katex is called with *)

MaxLen == 5

MaxFormula == 3

MaxProse == 1

MaxDigits == 2

MaxPad == 1

MaxLine == 2

MaxGap == 1

MaxDollarLen == 12

Alphabet == {Dollar, Backslash, " ", Newline, "1", "a"}

Strings(A, n) == UNION { [1 .. k -> A] : k \in 0 .. n }

\* f begins and ends with a non-whitespace character
Trimmed(f) == f # << >> /\ f[1] \notin Whitespace /\ f[Len(f)] \notin Whitespace

\* every text over the alphabet, up to MaxLen characters
ShortDocs == Strings(Alphabet, MaxLen)

\* marker-free formula texts
Formulas == Strings(Alphabet \ {Dollar}, MaxFormula)

TrimmedFormulas == { f \in Formulas : Trimmed(f) }

\* one formula line: no line break, begins and ends with non-whitespace
FormulaLines == { f \in Strings(Alphabet \ {Dollar, Newline}, MaxLine) : Trimmed(f) }

Pads == Strings({" "}, MaxPad)

DigitStrings == Strings({"1"}, MaxDigits) \ {<< >>}

Prose == Strings(Alphabet \ {Dollar}, MaxProse)

\* tests price_not_math_unchanged, two_consecutive_prices_unchanged
PriceDocs ==
    UNION { { p \o <<"$">> \o a \o <<"$">> \o b,
              p \o <<"$">> \o a \o <<" ", "$">> \o b,
              p \o <<"$">> \o a \o <<",", "$">> \o b,
              p \o <<"$">> \o a \o <<" ">> \o b } :
            p \in Prose, a \in DigitStrings, b \in DigitStrings }

\* test backslash_proceeding_dollar_unchanged and the first two cases of
\* internal_whitespace_padding_unchanged
EscapedOrPaddedInlineDocs ==
    UNION { { <<"\\", "$">> \o f \o <<"$">>,
              <<"$">> \o f \o <<"\\", "$">>,
              <<"$", " ">> \o f \o <<"$">>,
              <<"$">> \o f \o <<" ", "$">> } : f \in Formulas }

\* test double_dollar_unchanged
MismatchedDocs ==
    UNION { { <<"$", "$">> \o f \o <<"$">>, <<"$">> \o f \o <<"$", "$">> } : f \in Formulas }

\* test internal_whitespace_padding_unchanged, the display cases
PaddedDisplayDocs ==
    UNION { { <<"$", "$", " ">> \o f \o <<"$", "$">>,
              <<"$", "$">> \o f \o <<" ", "$", "$">>,
              <<"$", "$", "\n">> \o f \o <<"\n", "$", "$">> } : f \in TrimmedFormulas }

\* test double_dollar_escaped_unchanged
EscapedDisplayDocs ==
    UNION { { <<"\\", "$", "$">> \o f \o <<"$", "$">>,
              <<"$", "\\", "$">> \o f \o <<"$", "$">>,
              <<"$", "$">> \o f \o <<"\\", "$", "$">>,
              <<"$", "$">> \o f \o <<"$", "\\", "$">> } : f \in TrimmedFormulas }

\* test working_multiline: the two layouts
MultilineDocs ==
    { w1 \o <<"$", "$">> \o w2 \o <<"\n">> \o w3 \o f \o w4 \o <<"\n">> \o w5 \o <<"$", "$">> :
        w1 \in Pads, w2 \in Pads, w3 \in Pads, w4 \in Pads, w5 \in Pads, f \in FormulaLines }

SingleLineDocs == { <<"$", "$">> \o f \o <<"$", "$">> : f \in FormulaLines }

\* test multiple_formulae: an inline span, a display span, an inline span
Gaps == Strings({" ", "a"}, MaxGap) \ {<< >>}

DisplayLayouts == { <<"$", "$", "a", "$", "$">>, <<"$", "$", "\n", " ", "a", "\n", " ", "$", "$">> }

MultipleFormulaeDocs ==
    { g1 \o <<"$", "a", "$">> \o g2 \o d \o g3 \o <<"$", "a", "$">> \o g4 :
        g1 \in Gaps, g2 \in Gaps, g3 \in Gaps, g4 \in Gaps, d \in DisplayLayouts }

\* texts of markers and one ordinary character, long enough to nest spans
DollarDocs == Strings({Dollar, "a"}, MaxDollarLen)

Layouts ==
    {"short", "price", "inline-escaped-or-padded", "mismatched", "display-padded",
     "display-escaped", "multiline", "single-line", "multiple-formulae", "dollars"}

Documents(l) ==
    CASE l = "short" -> ShortDocs
      [] l = "price" -> PriceDocs
      [] l = "inline-escaped-or-padded" -> EscapedOrPaddedInlineDocs
      [] l = "mismatched" -> MismatchedDocs
      [] l = "display-padded" -> PaddedDisplayDocs
      [] l = "display-escaped" -> EscapedDisplayDocs
      [] l = "multiline" -> MultilineDocs
      [] l = "single-line" -> SingleLineDocs
      [] l = "multiple-formulae" -> MultipleFormulaeDocs
      [] l = "dollars" -> DollarDocs

-----------------------------------------------------------------------------

Init ==
    /\ layout \in Layouts
    /\ content \in Documents(layout)
    /\ pc = "inline"
    /\ text = content
    /\ pos = 0
    /\ last = 0
    /\ with_katex = << >>
    /\ inline = << >>
    /\ result = << >>
    /\ calls = << >>
    /\ spans = << >>
    /\ panic = << >>

\* One iteration of the for loop, render_with_opts returning Ok(k_html).
RenderKatexAuxIter ==
    /\ Running
    /\ \E m \in CapturesNext(text, Display, pos) :
        /\ with_katex' = PushGap(with_katex, text, last, m) \o KatexHtml(Tex(text, m), Display)
        /\ last' = NextLast(m)
        /\ pos' = m.end
        /\ calls' = Append(calls, [s |-> Tex(text, m), display |-> Display])
        /\ spans' = Append(spans, [display |-> Display, start |-> m.start, end |-> m.end,
                                   tstart |-> m.tstart, tend |-> m.tend])
    /\ UNCHANGED <<layout, content, pc, text, inline, result, panic>>

\* One iteration of the for loop, render_with_opts returning Err: unwrap() panics.
RenderKatexAuxUnwrapErr ==
    /\ Running
    /\ \E m \in CapturesNext(text, Display, pos) :
        /\ with_katex' = PushGap(with_katex, text, last, m)
        /\ last' = NextLast(m)
        /\ pos' = m.end
        /\ calls' = Append(calls, [s |-> Tex(text, m), display |-> Display])
        /\ spans' = Append(spans, [display |-> Display, start |-> m.start, end |-> m.end,
                                   tstart |-> m.tstart, tend |-> m.tend])
        /\ panic' = <<[s |-> Tex(text, m), display |-> Display]>>
    /\ pc' = "panicked"
    /\ UNCHANGED <<layout, content, text, inline, result>>

\* The inline pass's loop ends: it returns, and render_katex starts the display pass.
InlinePassReturn ==
    /\ pc = "inline"
    /\ CapturesNext(text, FALSE, pos) = {}
    /\ inline' = PushTail(with_katex, text, last)
    /\ text' = inline'
    /\ pc' = "display"
    /\ pos' = 0
    /\ last' = 0
    /\ with_katex' = << >>
    /\ UNCHANGED <<layout, content, result, calls, spans, panic>>

\* The display pass's loop ends: render_katex returns its value.
DisplayPassReturn ==
    /\ pc = "display"
    /\ CapturesNext(text, TRUE, pos) = {}
    /\ with_katex' = PushTail(with_katex, text, last)
    /\ result' = with_katex'
    /\ pc' = "done"
    /\ UNCHANGED <<layout, content, text, pos, last, inline, calls, spans, panic>>

Next ==
    \/ RenderKatexAuxIter
    \/ RenderKatexAuxUnwrapErr
    \/ InlinePassReturn
    \/ DisplayPassReturn

Spec == Init /\ [][Next]_vars

-----------------------------------------------------------------------------
(* Properties *)

InlineSpans == SelectSeq(spans, LAMBDA m : ~m.display)

DisplaySpans == SelectSeq(spans, LAMBDA m : m.display)

PassCalls(display) == SelectSeq(calls, LAMBDA c : c.display = display)

NoDollar(s) == \A k \in 1 .. Len(s) : s[k] # Dollar

IsPrefix(a, b) == Len(a) <= Len(b) /\ a = SubSeq(b, 1, Len(a))

IsSuffix(a, b) == Len(a) <= Len(b) /\ a = SubSeq(b, Len(b) - Len(a) + 1, Len(b))

\* render_katex returns its argument: no span is matched, the renderer is
\* not called, nothing panics, and each pass returns its input
ReturnsUnchanged ==
    /\ calls = << >>
    /\ spans = << >>
    /\ panic = << >>
    /\ pc # "panicked"
    /\ (pc \in {"display", "done"} => inline = content)
    /\ (pc = "done" => result = content)

\* s with the outer region of each capture of ms, from the k-th on, replaced
\* by the markup of its group 1, and the text from offset from on copied
RECURSIVE Spliced(_, _, _, _, _)
Spliced(s, ms, display, k, from) ==
    IF k > Len(ms)
    THEN Slice(s, from, Len(s))
    ELSE Slice(s, from, ms[k].start)
            \o KatexHtml(Slice(s, ms[k].tstart, ms[k].tend), display)
            \o Spliced(s, ms, display, k + 1, ms[k].end)

\* the renderer invocations a pass makes on captures ms of s: one per
\* capture, in order, each with the capture's group 1
ExpectedCalls(s, ms, display) ==
    [k \in 1 .. Len(ms) |-> [s |-> Slice(s, ms[k].tstart, ms[k].tend), display |-> display]]

FirstDollar(s) == Min({ k \in 0 .. (Len(s) - 1) : CharAt(s, k) = Dollar })

LastDollar(s) == Max({ k \in 0 .. (Len(s) - 1) : CharAt(s, k) = Dollar })

\* the offset after the last character that is neither whitespace nor a marker
FormulaEnd(s) == 1 + Max({ k \in 0 .. (Len(s) - 1) : CharAt(s, k) \notin Whitespace \cup {Dollar} })

\* C1: when the renderer fails on a matched span, render_katex hands the
\* failure back to its caller as a returned error outcome (the call returns).
C1_RenderFailureIsReturned == panic # << >> => pc = "done"

\* C2: each pass returns its input with every matched span's outer region
\* replaced by the markup rendered from exactly the span's inner text, all
\* other text copied verbatim and in order, with one renderer call per span,
\* left to right; a document with an inline, a display and a second inline
\* span has all three rendered and keeps its leading and trailing text.
C2_PassSplicesMarkup ==
    LET inlineCaps == CapturesIter(content, FALSE)
        inlineCalls == ExpectedCalls(content, inlineCaps, FALSE)
        displayCaps == CapturesIter(inline, TRUE)
        displayCalls == ExpectedCalls(inline, displayCaps, TRUE)
    IN  /\ IsPrefix(PassCalls(FALSE), inlineCalls)
        /\ (pc \in {"display", "done"} =>
                /\ inline = Spliced(content, inlineCaps, FALSE, 1, 0)
                /\ PassCalls(FALSE) = inlineCalls
                /\ IsPrefix(PassCalls(TRUE), displayCalls))
        /\ (pc = "done" =>
                /\ result = Spliced(inline, displayCaps, TRUE, 1, 0)
                /\ PassCalls(TRUE) = displayCalls)
        /\ (pc = "done" /\ layout = "multiple-formulae" =>
                /\ Len(PassCalls(FALSE)) = 2
                /\ Len(PassCalls(TRUE)) = 1
                /\ IsPrefix(Slice(content, 0, FirstDollar(content)), result)
                /\ IsSuffix(Slice(content, LastDollar(content) + 1, Len(content)), result))

C2_Witness ==
    /\ pc = "done"
    /\ layout = "multiple-formulae"
    /\ Len(calls) = 3
    /\ result # content

\* C3: a text without the marker character comes back identical, with no
\* span matched in either pass and the renderer never invoked.
C3_NoMarkerIdentity == NoDollar(content) => ReturnsUnchanged

C3_Witness == pc = "done" /\ NoDollar(content) /\ Len(content) >= 3 /\ result = content

\* C4: the price texts "$A$B", "$A $B", "$A,$B" and "$A B" (after any
\* marker-free prose) come back unchanged, and no inline span closes on a
\* marker that is immediately followed by a digit.
C4_PricesUnchanged ==
    /\ layout = "price" => ReturnsUnchanged
    /\ \A k \in 1 .. Len(InlineSpans) : ~Is(content, InlineSpans[k].end, Digits)

C4_Witness == pc = "done" /\ layout = "price" /\ Len(content) >= 4 /\ result = content

C6_PaddedDisplayUnchanged == layout = "display-padded" => ReturnsUnchanged

\* C7: a backslash before any one marker of a display delimiter pair
\* suppresses the match: "\$$f$$", "$\$f$$", "$$f\$$" and "$$f$\$" come
\* back unchanged.
C7_EscapedDisplayUnchanged == layout = "display-escaped" => ReturnsUnchanged

\* C8: "$$f$" and "$f$$" are matched by neither pass and come back
\* unchanged, for every marker-free f.
C8_MismatchedUnchanged == layout = "mismatched" => ReturnsUnchanged

C8_Witness ==
    /\ pc = "done"
    /\ layout = "mismatched"
    /\ Len(content) >= 4
    /\ Trimmed(Slice(content, 1, Len(content) - 2))
    /\ result = content

\* the inline boundary rules, for a capture m of the inline pass on s
InlineRules(s, m) ==
    /\ Is(s, m.start, {Dollar})
    /\ NotBehind(s, m.start, {Backslash, Dollar})
    /\ m.tstart = m.start + 1
    /\ m.tend > m.tstart
    /\ \A k \in m.tstart .. (m.tend - 1) : CharAt(s, k) # Dollar
    /\ CharAt(s, m.tstart) \notin Whitespace
    /\ CharAt(s, m.tend - 1) \notin Whitespace \cup {Backslash}
    /\ Is(s, m.tend, {Dollar})
    /\ m.end = m.tend + 1
    /\ NotAhead(s, m.end, Digits \cup {Dollar})

\* C9: every span the inline pass matches obeys all the inline boundary
\* rules; so "\$f$", "$f\$", "$ f$" and "$f $" come back unchanged and no
\* inline span boundary is half of a double marker.
C9_InlineBoundaryRules ==
    /\ \A k \in 1 .. Len(InlineSpans) : InlineRules(content, InlineSpans[k])
    /\ layout = "inline-escaped-or-padded" => ReturnsUnchanged

C9_Witness ==
    /\ pc = "done"
    /\ Len(InlineSpans) >= 1
    /\ InlineSpans[1].tend - InlineSpans[1].tstart >= 2

\* C10: every display span the display pattern matches on the original
\* text is matched by the display pass on the inline pass's output, with
\* the same formula text.
C10_DisplaySpansSurviveInlinePass ==
    pc = "done" =>
        \A k \in 1 .. Len(CapturesIter(content, TRUE)) :
            \E j \in 1 .. Len(DisplaySpans) :
                Slice(inline, DisplaySpans[j].tstart, DisplaySpans[j].tend)
                    = Slice(content, CapturesIter(content, TRUE)[k].tstart,
                            CapturesIter(content, TRUE)[k].tend)

====
